---------------------------- MODULE Spec2Model ----------------------------
(***************************************************************************)
(* logcolor (src/log_highlighter.rs): a line-by-line highlighter of log    *)
(* severity tokens.                                                        *)
(*                                                                         *)
(* Text is modelled as Rust holds it: a str is a sequence of UTF-8 bytes   *)
(* (integers 0..255), offsets are byte offsets starting at 0, and a slice  *)
(* line[a..b] panics unless a <= b <= len and both a and b are character   *)
(* boundaries.  str::to_uppercase maps character by character and may      *)
(* change the byte length of a character.                                  *)
(***************************************************************************)
EXTENDS Integers, Sequences, FiniteSets, TLC

VARIABLES pc, argc, arg1, openOk, input, cur, found, out, err, nread,
          nprinted, ended, exitCode

vars == <<pc, argc, arg1, openOk, input, cur, found, out, err, nread,
          nprinted, ended, exitCode>>

(***************************************************************************)
(* Bounds of the model.                                                    *)
(***************************************************************************)
\* A line of LineSpec is a concatenation of at most MaxFrags fragments.
MaxFrags == 2
\* An input stream of Spec holds at most MaxLines lines.
MaxLines == 2

(***************************************************************************)
(* Byte strings.                                                           *)
(***************************************************************************)
NL == <<10>>                       \* "\n"

\* The escape constants, byte for byte.
RED     == <<27, 91, 51, 49, 109>>   \* "\x1b[31m"
YELLOW  == <<27, 91, 51, 51, 109>>   \* "\x1b[33m"
GREEN   == <<27, 91, 51, 50, 109>>   \* "\x1b[32m"
BLUE    == <<27, 91, 51, 52, 109>>   \* "\x1b[34m"
MAGENTA == <<27, 91, 51, 53, 109>>   \* "\x1b[35m"
CYAN    == <<27, 91, 51, 54, 109>>   \* "\x1b[36m"
RESET   == <<27, 91, 48, 109>>       \* "\x1b[0m"
BOLD    == <<27, 91, 49, 109>>       \* "\x1b[1m"

\* The level names, as byte strings.
ERROR   == <<69, 82, 82, 79, 82>>
ERR     == <<69, 82, 82>>
WARNING == <<87, 65, 82, 78, 73, 78, 71>>
WARN    == <<87, 65, 82, 78>>
INFO    == <<73, 78, 70, 79>>
DEBUG   == <<68, 69, 66, 85, 71>>
TRACE   == <<84, 82, 65, 67, 69>>

\* let tokens = ["ERROR", "ERR", "WARNING", "WARN", "INFO", "DEBUG", "TRACE"];
tokens == <<ERROR, ERR, WARNING, WARN, INFO, DEBUG, TRACE>>

\* A UTF-8 continuation byte (10xxxxxx).
IsContinuation(b) == b >= 128 /\ b <= 191

\* str::is_char_boundary(i), i a byte offset from 0.
is_char_boundary(s, i) ==
    \/ i = 0
    \/ i = Len(s)
    \/ i > 0 /\ i < Len(s) /\ ~IsContinuation(s[i + 1])

\* Whether &s[a..b] is a slice Rust grants; it panics otherwise.
SliceOk(s, a, b) ==
    /\ a <= b
    /\ b <= Len(s)
    /\ is_char_boundary(s, a)
    /\ is_char_boundary(s, b)

\* The bytes of &s[a..b].
Slice(s, a, b) == SubSeq(s, a + 1, b)

\* The byte length of the character a lead byte starts.
CharLen(b) == IF b < 128 THEN 1 ELSE IF b < 224 THEN 2 ELSE IF b < 240 THEN 3 ELSE 4

\* char::to_uppercase, on the characters of the model's alphabet:
\* a..z -> A..Z; U+0131 (dotless i, C4 B1) -> "I"; U+0149 (n preceded by
\* apostrophe, C5 89) -> U+02BC "N" (CA BC 4E); anything else unchanged.
UpperChar(c) ==
    IF Len(c) = 1 /\ c[1] >= 97 /\ c[1] <= 122 THEN <<c[1] - 32>>
    ELSE IF c = <<196, 177>> THEN <<73>>
    ELSE IF c = <<197, 137>> THEN <<202, 188, 78>>
    ELSE c

\* str::to_uppercase: the upper-cased characters, concatenated.
RECURSIVE to_uppercase(_)
to_uppercase(s) ==
    IF s = <<>> THEN <<>>
    ELSE LET n == CharLen(s[1])
         IN  UpperChar(SubSeq(s, 1, n)) \o to_uppercase(SubSeq(s, n + 1, Len(s)))

\* Whether pat stands in h at byte offset i.
MatchAt(h, pat, i) == \A j \in 1..Len(pat) : h[i + j] = pat[j]

\* str::find(pat): the byte offset of the first occurrence of pat, -1 for None.
find(h, pat) ==
    LET hits == {i \in 0..(Len(h) - Len(pat)) : MatchAt(h, pat, i)}
    IN  IF hits = {} THEN -1
        ELSE CHOOSE i \in hits : \A k \in hits : i <= k

(***************************************************************************)
(* find_level.                                                             *)
(***************************************************************************)
\* What one rule, one pass or find_level itself yields: no hit ("none"),
\* Some((pos, token)) ("some"), or a panic of the slice it takes ("panic").
NoHit    == [kind |-> "none", pos |-> 0, token |-> <<>>]
Panicked == [kind |-> "panic", pos |-> 0, token |-> <<>>]

\* return Some((p, &line[a..b]));
SomeSlice(line, p, a, b) ==
    IF SliceOk(line, a, b)
    THEN [kind |-> "some", pos |-> p, token |-> Slice(line, a, b)]
    ELSE Panicked

\* The body of the first loop, for token t.
BracketRule(line, upper, t) ==
    LET bracket1 == <<91>> \o t \o <<93>>      \* format!("[{}]", t)
        bracket2 == <<40>> \o t \o <<41>>      \* format!("({})", t)
        p1 == find(upper, bracket1)
        p2 == find(upper, bracket2)
    IN  IF p1 >= 0 THEN SomeSlice(line, p1, p1, p1 + Len(bracket1))
        ELSE IF p2 >= 0 THEN SomeSlice(line, p2, p2, p2 + Len(bracket2))
        ELSE NoHit

\* DelimitedRule reporting the offset of the space of " TOKEN" as the start of
\* the match, with the span still taken after the space.
DelimitedRule_PosOfSpace(line, upper, t) ==
    LET p1 == find(upper, t \o <<58>>)
        p2 == find(upper, t \o <<32, 45>>)
        p3 == find(upper, <<32>> \o t)
    IN  IF p1 >= 0 THEN SomeSlice(line, p1, p1, p1 + Len(t) + 1)
        ELSE IF p2 >= 0 THEN SomeSlice(line, p2, p2, p2 + Len(t) + 2)
        ELSE IF p3 >= 0 THEN SomeSlice(line, p3, p3 + 1, p3 + 1 + Len(t))
        ELSE NoHit

\* The body of the second loop, for token t.
DelimitedRule(line, upper, t) ==
    LET p1 == find(upper, t \o <<58>>)          \* format!("{}:", t)
        p2 == find(upper, t \o <<32, 45>>)      \* format!("{} -", t)
        p3 == find(upper, <<32>> \o t)          \* format!(" {}", t)
    IN  IF p1 >= 0 THEN SomeSlice(line, p1, p1, p1 + Len(t) + 1)
        ELSE IF p2 >= 0 THEN SomeSlice(line, p2, p2, p2 + Len(t) + 2)
        ELSE IF p3 >= 0 THEN SomeSlice(line, p3 + 1, p3 + 1, p3 + 1 + Len(t))
        ELSE NoHit

\* The body of the third loop, for token t.
BareRule(line, upper, t) ==
    LET p == find(upper, t)
    IN  IF p >= 0 THEN SomeSlice(line, p, p, p + Len(t)) ELSE NoHit

\* for t in tokens.iter() { .. }: rs[k] is what the loop body yields for
\* tokens[k]; the loop returns at the first token whose body returns (or
\* panics), and runs to its end (NoHit) when none does.
FirstHit(rs) ==
    LET hit == {k \in DOMAIN rs : rs[k].kind # "none"}
    IN  IF hit = {} THEN NoHit
        ELSE rs[CHOOSE k \in hit : \A m \in hit : k <= m]

\* find_level without its third loop (the bare fallback).
find_level_NoFallback(line) ==
    LET upper == to_uppercase(line)
        r1 == FirstHit([k \in DOMAIN tokens |-> BracketRule(line, upper, tokens[k])])
        r2 == FirstHit([k \in DOMAIN tokens |-> DelimitedRule(line, upper, tokens[k])])
    IN  IF r1.kind # "none" THEN r1 ELSE r2

find_level(line) ==
    LET upper == to_uppercase(line)
        r1 == FirstHit([k \in DOMAIN tokens |-> BracketRule(line, upper, tokens[k])])
        r2 == FirstHit([k \in DOMAIN tokens |-> DelimitedRule(line, upper, tokens[k])])
        r3 == FirstHit([k \in DOMAIN tokens |-> BareRule(line, upper, tokens[k])])
    IN  IF r1.kind # "none" THEN r1
        ELSE IF r2.kind # "none" THEN r2
        ELSE r3

(***************************************************************************)
(* print_colored_line.                                                     *)
(***************************************************************************)
color_for_level(level) ==
    IF level = ERROR \/ level = ERR THEN RED
    ELSE IF level = WARN \/ level = WARNING THEN YELLOW
    ELSE IF level = INFO THEN GREEN
    ELSE IF level = DEBUG THEN CYAN
    ELSE IF level = TRACE THEN MAGENTA
    ELSE RESET

\* char::is_whitespace (the Unicode White_Space characters), c a character's bytes.
is_whitespace(c) ==
    \/ Len(c) = 1 /\ c[1] \in {9, 10, 11, 12, 13, 32}
    \/ c \in {<<194, 133>>, <<194, 160>>, <<225, 154, 128>>, <<226, 128, 168>>,
              <<226, 128, 169>>, <<226, 128, 175>>, <<226, 129, 159>>,
              <<227, 128, 128>>}
    \/ Len(c) = 3 /\ c[1] = 226 /\ c[2] = 128 /\ c[3] >= 128 /\ c[3] <= 138

\* The closure given to trim_matches.
TrimPredicate(c) ==
    \/ Len(c) = 1 /\ c[1] \in {91, 93, 40, 41, 58, 45}
    \/ is_whitespace(c)

\* The byte offset at which the last character of the non-empty s starts.
LastCharStart(s) ==
    CHOOSE i \in 0..(Len(s) - 1) :
        /\ is_char_boundary(s, i)
        /\ \A k \in (i + 1)..(Len(s) - 1) : ~is_char_boundary(s, k)

RECURSIVE trim_start(_)
trim_start(s) ==
    IF s = <<>> THEN s
    ELSE LET n == CharLen(s[1])
         IN  IF TrimPredicate(SubSeq(s, 1, n))
             THEN trim_start(SubSeq(s, n + 1, Len(s)))
             ELSE s

RECURSIVE trim_end(_)
trim_end(s) ==
    IF s = <<>> THEN s
    ELSE LET i == LastCharStart(s)
         IN  IF TrimPredicate(SubSeq(s, i + 1, Len(s)))
             THEN trim_end(SubSeq(s, 1, i))
             ELSE s

\* str::trim_matches with the closure of print_colored_line.
trim_matches(s) == trim_end(trim_start(s))

\* let raw = token.trim_matches(..).to_uppercase();
raw_level(token) == to_uppercase(trim_matches(token))

\* One write!/writeln! of print_colored_line: the text it hands to the output,
\* or the panic of the slice it takes.
Text(t)    == [panic |-> FALSE, text |-> t]
SlicePanic == [panic |-> TRUE, text |-> <<>>]

\* The writes of print_colored_line in order, given what find_level returned;
\* a write whose slice panics ends the list.
Chunks(line, r) ==
    IF r.kind = "some" THEN
        LET pos == r.pos
            n == Len(r.token)
            color == color_for_level(raw_level(r.token))
            w1 == IF SliceOk(line, 0, pos)
                  THEN Text(Slice(line, 0, pos)) ELSE SlicePanic
            w2 == IF SliceOk(line, pos, pos + n)
                  THEN Text(BOLD \o color \o Slice(line, pos, pos + n) \o RESET)
                  ELSE SlicePanic
            w3 == IF SliceOk(line, pos + n, Len(line))
                  THEN Text(Slice(line, pos + n, Len(line)) \o NL) ELSE SlicePanic
        IN  IF w1.panic THEN <<w1>>
            ELSE IF w2.panic THEN <<w1, w2>>
            ELSE <<w1, w2, w3>>
    ELSE <<Text(line \o NL)>>

RECURSIVE Concat(_)
Concat(ws) == IF ws = <<>> THEN <<>> ELSE Head(ws).text \o Concat(Tail(ws))

\* The rest of print_colored_line once find_level has returned r (or
\* panicked), where the failAt-th write to out fails (0: none does) and puts
\* nothing of its text on the output.  found is
\* what find_level returned, written the bytes that reached out, result the
\* outcome: "Ok", "Err" (a write failed and its error is returned), "panic".
PrintFound(line, r, failAt) ==
    IF r.kind = "panic"
    THEN [found |-> r, written |-> <<>>, result |-> "panic"]
    ELSE LET chunks == Chunks(line, r)
             stop == {k \in 1..Len(chunks) : chunks[k].panic \/ k = failAt}
             last == IF stop = {} THEN Len(chunks)
                     ELSE (CHOOSE k \in stop : \A m \in stop : k <= m) - 1
         IN  [found |-> r,
              written |-> Concat(SubSeq(chunks, 1, last)),
              result |-> IF stop = {} THEN "Ok"
                         ELSE IF chunks[last + 1].panic THEN "panic"
                         ELSE "Err"]

print_colored_line(line, failAt) == PrintFound(line, find_level(line), failAt)

\* The number of writes print_colored_line makes once find_level has returned r.
NumWrites(r) == IF r.kind = "some" THEN 3 ELSE 1

(***************************************************************************)
(* The inputs of the model.                                                *)
(***************************************************************************)
\* Spellings of level names put into a line in every surface form: ERROR,
\* warn, INFO, and info written with U+0131 (dotless i).
Words == {ERROR, <<119, 97, 114, 110>>, INFO, <<196, 177, 110, 102, 111>>}

\* Spellings put into a line bare: err, WARNING, Debug, TRACE.
BareWords == {<<101, 114, 114>>, WARNING, <<68, 101, 98, 117, 103>>, TRACE}

\* A word in each surface form find_level looks for: bare, [w], (w), w:,
\* "w -" and " w".
Decorate(w) == {w, <<91>> \o w \o <<93>>, <<40>> \o w \o <<41>>, w \o <<58>>,
                w \o <<32, 45>>, <<32>> \o w}

\* Other text: "x", ":", " ", U+0131 (two bytes, upper-cased to one) and
\* U+0149 (two bytes, upper-cased to three).
Fillers == {<<120>>, <<58>>, <<32>>, <<196, 177>>, <<197, 137>>}

Frags == Fillers \cup BareWords \cup UNION {Decorate(w) : w \in Words}

\* The lines made of at most n fragments.
RECURSIVE LinesUpTo(_)
LinesUpTo(n) ==
    IF n = 0 THEN {<<>>}
    ELSE LET shorter == LinesUpTo(n - 1)
         IN  shorter \cup {l \o f : l \in shorter, f \in Frags}

\* The lines of a stream: "2024 INFO start", "2024 [ERROR] boom", "no level here", "something warn: retry", U+0131 followed by "info"
StreamLines == {
    <<50, 48, 50, 52, 32, 73, 78, 70, 79, 32, 115, 116, 97, 114, 116>>,
    <<50, 48, 50, 52, 32, 91, 69, 82, 82, 79, 82, 93, 32, 98, 111, 111, 109>>,
    <<110, 111, 32, 108, 101, 118, 101, 108, 32, 104, 101, 114, 101>>,
    <<115, 111, 109, 101, 116, 104, 105, 110, 103, 32, 119, 97, 114, 110, 58, 32, 114, 101, 116, 114, 121>>,
    <<196, 177, 105, 110, 102, 111>>
}

\* The streams of at most n lines.
RECURSIVE StreamsUpTo(_)
StreamsUpTo(n) ==
    IF n = 0 THEN {<<>>}
    ELSE LET shorter == StreamsUpTo(n - 1)
         IN  shorter \cup {Append(ls, l) : ls \in shorter, l \in StreamLines}

(***************************************************************************)
(* The program.  pc is the place of control: "main" (main is entered),     *)
(* "loop" (process_reader asks reader.lines() for the next line), "print"  *)
(* (a line was read and is handed to print_colored_line), "return"         *)
(* (process_reader has returned to main), "exit" (the process has ended).  *)
(* ended records why the run ended, exitCode the exit status (-1 while the *)
(* process runs).  argc is args.len(), arg1 is args[1] ("-" or a path).     *)
(* input is the lines the source holds, nread how many of them the loop    *)
(* has read, cur the line read last, found what find_level returned for    *)
(* it, nprinted how many lines print_colored_line has written in full,     *)
(* out the bytes on standard output, err the reports on standard error.    *)
(***************************************************************************)
Init ==
    /\ pc = "main"
    /\ argc \in 1..3
    /\ arg1 \in IF argc = 1 THEN {"none"} ELSE {"-", "path"}
    /\ openOk \in IF argc = 2 /\ arg1 = "path" THEN BOOLEAN ELSE {TRUE}
    /\ input \in StreamsUpTo(MaxLines)
    /\ cur = <<>>
    /\ found = NoHit
    /\ out = <<>>
    /\ err = <<>>
    /\ nread = 0
    /\ nprinted = 0
    /\ ended = "running"
    /\ exitCode = -1

\* print_usage(program): one report on the error channel.
print_usage == Append(err, "usage")

\* main, up to its call of process_reader.
main ==
    /\ pc = "main"
    /\ IF argc > 2
       THEN /\ err' = print_usage
            /\ ended' = "usage"
            /\ exitCode' = 1
            /\ pc' = "exit"
       ELSE IF argc = 1 \/ arg1 = "-"
       THEN /\ pc' = "loop"
            /\ UNCHANGED <<err, ended, exitCode>>
       ELSE IF openOk
       THEN /\ pc' = "loop"
            /\ UNCHANGED <<err, ended, exitCode>>
       ELSE /\ err' = Append(err, "failed to open")
            /\ ended' = "open"
            /\ exitCode' = 1
            /\ pc' = "exit"
    /\ UNCHANGED <<argc, arg1, openOk, input, cur, found, out, nread, nprinted>>

\* process_reader going on with the loop after reporting a failure.
AfterFailure_NoBreak == "loop"

\* Where process_reader goes after reporting a failure: break.
AfterFailure == "return"

\* reader.lines() yields Some(Ok(line)).
ReadLine ==
    /\ pc = "loop"
    /\ nread < Len(input)
    /\ cur' = input[nread + 1]
    /\ nread' = nread + 1
    /\ pc' = "print"
    /\ UNCHANGED <<argc, arg1, openOk, input, found, out, err, nprinted, ended,
                   exitCode>>

\* reader.lines() yields Some(Err(e)): the Err arm.
ReadError ==
    /\ pc = "loop"
    /\ err' = Append(err, "read error")
    /\ ended' = "read"
    /\ pc' = AfterFailure
    /\ UNCHANGED <<argc, arg1, openOk, input, cur, found, out, nread, nprinted,
                   exitCode>>

\* reader.lines() yields None: the for loop ends.
ReadEof ==
    /\ pc = "loop"
    /\ nread = Len(input)
    /\ ended' = "eof"
    /\ pc' = "return"
    /\ UNCHANGED <<argc, arg1, openOk, input, cur, found, out, err, nread,
                   nprinted, exitCode>>

\* The Ok(line) arm: print_colored_line(&mut handle, &line), and the report
\* and break when it returns an error.  A panic ends the process with Rust's
\* exit status 101.
PrintLine ==
    /\ pc = "print"
    /\ \E lvl \in {find_level(cur)} :
       \E failAt \in 0..NumWrites(lvl) :
          LET r == PrintFound(cur, lvl, failAt)
          IN  /\ found' = r.found
              /\ out' = out \o r.written
              /\ IF r.result = "panic"
                 THEN /\ ended' = "panic"
                      /\ exitCode' = 101
                      /\ pc' = "exit"
                      /\ UNCHANGED <<err, nprinted>>
                 ELSE IF r.result = "Err"
                 THEN /\ err' = Append(err, "write error")
                      /\ ended' = "write"
                      /\ pc' = AfterFailure
                      /\ UNCHANGED <<nprinted, exitCode>>
                 ELSE /\ nprinted' = nprinted + 1
                      /\ pc' = "loop"
                      /\ UNCHANGED <<err, ended, exitCode>>
    /\ UNCHANGED <<argc, arg1, openOk, input, cur, nread>>

\* What process_reader returns: Ok(()) on every path.
process_reader_result == "Ok"

\* main, after process_reader has returned: exit(1) on Err, return otherwise.
MainReturn ==
    /\ pc = "return"
    /\ IF process_reader_result = "Err"
       THEN /\ err' = Append(err, "error processing")
            /\ exitCode' = 1
       ELSE /\ exitCode' = 0
            /\ UNCHANGED err
    /\ pc' = "exit"
    /\ UNCHANGED <<argc, arg1, openOk, input, cur, found, out, nread, nprinted,
                   ended>>

Next == main \/ ReadLine \/ ReadError \/ ReadEof \/ PrintLine \/ MainReturn

\* The program on streams of at most MaxLines lines.
Spec == Init /\ [][Next]_vars

\* One call of print_colored_line on each line of at most MaxFrags fragments.
InitLine ==
    /\ pc = "print"
    /\ argc = 1
    /\ arg1 = "none"
    /\ openOk = TRUE
    /\ cur \in LinesUpTo(MaxFrags)
    /\ input = <<cur>>
    /\ found = NoHit
    /\ out = <<>>
    /\ err = <<>>
    /\ nread = 1
    /\ nprinted = 0
    /\ ended = "running"
    /\ exitCode = -1

NextLine == PrintLine

LineSpec == InitLine /\ [][NextLine]_vars

(***************************************************************************)
(* Notions the properties below are stated with.                           *)
(***************************************************************************)
Take(s, n) == SubSeq(s, 1, n)
Drop(s, n) == SubSeq(s, n + 1, Len(s))
IsPrefix(s, t) == Len(s) <= Len(t) /\ SubSeq(t, 1, Len(s)) = s

\* pat occurs in s.
Occurs(s, pat) ==
    \E i \in 0..(Len(s) - Len(pat)) : SubSeq(s, i + 1, i + Len(pat)) = pat

TokenSet == {tokens[k] : k \in DOMAIN tokens}

\* A token occurs in the line as a case-insensitive substring: it occurs in
\* the upper-cased copy of the line.
HasToken(line) == \E t \in TokenSet : Occurs(to_uppercase(line), t)

Bracketed(t) == {<<91>> \o t \o <<93>>, <<40>> \o t \o <<41>>}
BracketPatterns == UNION {Bracketed(t) : t \in TokenSet}

\* The line holds [TOKEN] or (TOKEN), case-insensitively.
HasBracketed(line) == \E b \in BracketPatterns : Occurs(to_uppercase(line), b)

\* What a reported span upper-cases to, by the rule that found it.
SpanPatterns ==
    BracketPatterns \cup TokenSet
        \cup {t \o <<58>> : t \in TokenSet} \cup {t \o <<32, 45>> : t \in TokenSet}

\* The severity colour of a level name.
SeverityColour(level) ==
    CASE level \in {ERROR, ERR} -> RED
      [] level \in {WARN, WARNING} -> YELLOW
      [] level = INFO -> GREEN
      [] level = DEBUG -> CYAN
      [] level = TRACE -> MAGENTA
      [] OTHER -> <<>>

\* print_colored_line has been called on cur (LineSpec), and has returned Ok.
Called  == pc # "print" /\ nread = 1
Printed == Called /\ nprinted = 1

\* The offset in the line of the character boundary that stands at offset u of
\* the upper-cased copy, -1 when u is inside a character's upper-cased form.
RECURSIVE LineOffset(_, _, _)
LineOffset(s, u, at) ==
    IF u = 0 THEN at
    ELSE IF s = <<>> THEN -1
    ELSE LET n == CharLen(s[1])
             m == Len(UpperChar(SubSeq(s, 1, n)))
         IN  IF m > u THEN -1 ELSE LineOffset(Drop(s, n), u - m, at + n)

\* The rules in the order find_level tries them: the pattern searched for and
\* lead, the number of leading bytes of it the span leaves out.
Rule(pat, lead) == [pat |-> pat, lead |-> lead]
RulesOfPass1(t) == <<Rule(<<91>> \o t \o <<93>>, 0), Rule(<<40>> \o t \o <<41>>, 0)>>
RulesOfPass2(t) == <<Rule(t \o <<58>>, 0), Rule(t \o <<32, 45>>, 0), Rule(<<32>> \o t, 1)>>
RulesOfPass3(t) == <<Rule(t, 0)>>
RuleOrder ==
    RulesOfPass1(ERROR) \o RulesOfPass1(ERR) \o RulesOfPass1(WARNING)
        \o RulesOfPass1(WARN) \o RulesOfPass1(INFO) \o RulesOfPass1(DEBUG)
        \o RulesOfPass1(TRACE)
        \o RulesOfPass2(ERROR) \o RulesOfPass2(ERR) \o RulesOfPass2(WARNING)
        \o RulesOfPass2(WARN) \o RulesOfPass2(INFO) \o RulesOfPass2(DEBUG)
        \o RulesOfPass2(TRACE)
        \o RulesOfPass3(ERROR) \o RulesOfPass3(ERR) \o RulesOfPass3(WARNING)
        \o RulesOfPass3(WARN) \o RulesOfPass3(INFO) \o RulesOfPass3(DEBUG)
        \o RulesOfPass3(TRACE)

\* The hit of the first rule of RuleOrder whose pattern the line holds
\* case-insensitively: the leftmost occurrence of that pattern, as offsets of
\* the line, the span being the text of the line there less the rule's lead.
RuleHit(line) ==
    LET upper == to_uppercase(line)
        hit == {k \in DOMAIN RuleOrder : Occurs(upper, RuleOrder[k].pat)}
    IN  IF hit = {} THEN NoHit
        ELSE LET r == RuleOrder[CHOOSE k \in hit : \A m \in hit : k <= m]
                 u == CHOOSE i \in 0..Len(upper) :
                        /\ SubSeq(upper, i + 1, i + Len(r.pat)) = r.pat
                        /\ \A j \in 0..(i - 1) :
                              SubSeq(upper, j + 1, j + Len(r.pat)) # r.pat
                 a == LineOffset(line, u + r.lead, 0)
                 b == LineOffset(line, u + Len(r.pat), 0)
             IN  [kind |-> "some", pos |-> a, token |-> SubSeq(line, a + 1, b)]

\* The text with its escape sequences (ESC [ .. m) removed.
RECURSIVE SkipEscape(_)
SkipEscape(s) ==
    IF s = <<>> THEN s ELSE IF s[1] = 109 THEN Tail(s) ELSE SkipEscape(Tail(s))

RECURSIVE StripEscapes(_)
StripEscapes(s) ==
    IF s = <<>> THEN s
    ELSE IF s[1] = 27 THEN StripEscapes(SkipEscape(s))
    ELSE <<s[1]>> \o StripEscapes(Tail(s))

\* The lines of a text, each ended by a newline; an unended rest is a line too.
RECURSIVE SplitLines(_, _)
SplitLines(s, acc) ==
    IF s = <<>> THEN (IF acc = <<>> THEN <<>> ELSE <<acc>>)
    ELSE IF s[1] = 10 THEN <<acc>> \o SplitLines(Tail(s), <<>>)
    ELSE SplitLines(Tail(s), Append(acc, s[1]))

IoFailed == ended \in {"read", "write"}

(***************************************************************************)
(* The properties.                                                         *)
(***************************************************************************)

\* C1: when find_level reports (pos, token) and no write fails,
\* print_colored_line writes line[..pos], BOLD, the colour code, token, RESET,
\* line[pos+len(token)..] and one newline; the text before the match, the
\* matched text and the text after it concatenate to the line.
C1_WritesPrefixTokenSuffix ==
    (Printed /\ found.kind = "some") =>
        LET pos == found.pos
            token == found.token
            e == pos + Len(token)
        IN  /\ e <= Len(cur)
            /\ out = Take(cur, pos) \o BOLD \o color_for_level(raw_level(token))
                        \o token \o RESET \o Drop(cur, e) \o NL
            /\ Take(cur, pos) \o token \o Drop(cur, e) = cur

\* A line was printed whose match stands inside the line, after a character
\* whose upper-cased form is shorter than the character.
C1_Witness ==
    /\ Printed
    /\ found.kind = "some"
    /\ found.pos > 0
    /\ found.pos + Len(found.token) < Len(cur)
    /\ Len(to_uppercase(cur)) < Len(cur)

\* C2: find_level returns the hit of the first rule that matches in the order
\* pass 1 ([TOKEN], (TOKEN) per token), pass 2 (TOKEN:, TOKEN -, space TOKEN
\* per token), pass 3 (bare TOKEN per token), at the leftmost occurrence of
\* that rule's pattern, the span being the text of the line that matched, less
\* the leading space of the space-anchored rule.
C2_FirstRuleInOrderWins == Called => found = RuleHit(cur)

\* C3: for a line holding [TOKEN] or (TOKEN), the reported span is a bracketed
\* or parenthesized form with its brackets.
C3_BracketedFormsFirst ==
    (Called /\ HasBracketed(cur)) =>
        /\ found.kind = "some"
        /\ to_uppercase(found.token) \in BracketPatterns

\* C4: find_level returns no match exactly for the lines holding none of the
\* seven tokens case-insensitively, and such a line is written unmodified,
\* followed by one newline, with no escape sequence.
C4_NoMatchIffNoToken ==
    Called =>
        /\ (found.kind = "none") <=> ~HasToken(cur)
        /\ (Printed /\ ~HasToken(cur)) =>
              /\ out = cur \o NL
              /\ \A i \in DOMAIN out : out[i] # 27

\* A line of several characters, one of them of two bytes, holding no token
\* was printed.
C4_Witness ==
    /\ Printed
    /\ found.kind = "none"
    /\ Len(cur) >= 3
    /\ \E i \in DOMAIN cur : cur[i] > 127

\* C5: the reported span, stripped and upper-cased, is one of the seven tokens,
\* the colour written is that token's severity colour, and never the fallback.
C5_ColourOfSeverity ==
    (Called /\ found.kind = "some") =>
        LET raw == raw_level(found.token)
        IN  /\ raw \in TokenSet
            /\ color_for_level(raw) = SeverityColour(raw)
            /\ color_for_level(raw) # RESET
            /\ Printed => IsPrefix(Take(cur, found.pos) \o BOLD \o SeverityColour(raw)
                                       \o found.token, out)

\* C6: the reported offsets are offsets of the original line: the span is the
\* text of the line at the reported position, and it upper-cases to the
\* pattern that was found.
C6_OffsetsOfOriginalLine ==
    (Called /\ found.kind = "some") =>
        /\ SubSeq(cur, found.pos + 1, found.pos + Len(found.token)) = found.token
        /\ to_uppercase(found.token) \in SpanPatterns

\* C7: find_level and print_colored_line take no slice outside the line or
\* off a character boundary: processing a line never aborts the program.
C7_NeverAborts == ended # "panic"

\* C8: the exit code is 0 on a clean end-of-stream and non-zero when the run
\* ends on a bad argument count, a failed open, a read error or a write error.
C8_ExitCode ==
    (pc = "exit") =>
        /\ (ended = "eof") => (exitCode = 0)
        /\ (ended \in {"usage", "open", "read", "write"}) => (exitCode # 0)

\* C9: the first read or write failure is reported once and ends the loop:
\* from then on no line is read, nothing is written, nothing more is
\* reported; the output written before the failure stays as it is.
C9_FailureEndsLoop ==
    [][ /\ IoFailed =>
            /\ nread' = nread
            /\ out' = out
            /\ err' = err
            /\ ended' = ended
            /\ pc' \in {"return", "exit"}
        /\ (~IoFailed /\ IoFailed') =>
            /\ err' = Append(err, IF ended' = "read" THEN "read error" ELSE "write error")
            /\ nread' = nread
            /\ IsPrefix(out, out')
            /\ pc' = "return"
      ]_vars

\* The run has ended after a write failure on its second line, with the
\* first line on the output and its report on the error channel.
C9_Witness ==
    /\ pc = "exit"
    /\ ended = "write"
    /\ nread = 2
    /\ nprinted = 1
    /\ out # <<>>
    /\ err = <<"write error">>

\* C10: with no I/O failure, process_reader ends at end-of-stream without
\* error, having written one output line per input line in order, each line
\* written in full before the next is read, and the k-th output line less its
\* escape sequences is the k-th input line.
C10_OneOutputLinePerInputLine ==
    /\ ended # "panic"
    /\ (pc = "print") => (nread = nprinted + 1)
    /\ (pc = "loop") => (nread = nprinted)
    /\ (ended = "eof") =>
          /\ nread = Len(input)
          /\ err = <<>>
          /\ LET lines == SplitLines(out, <<>>)
             IN  /\ Len(lines) = Len(input)
                 /\ \A k \in DOMAIN input : StripEscapes(lines[k]) = input[k]
                 /\ out = <<>> \/ out[Len(out)] = 10

(***************************************************************************)
(* Where the failing properties fail.  C2, C3, C5, C6, C7 and C10 fail     *)
(* only through a character whose upper-cased form has another byte length  *)
(* than the character: find_level then uses offsets of the upper-cased     *)
(* copy as offsets of the line.  On the other lines they hold.             *)
(***************************************************************************)
\* Every character of s keeps its byte length when upper-cased.
RECURSIVE KeepsLengths(_)
KeepsLengths(s) ==
    \/ s = <<>>
    \/ LET n == CharLen(s[1])
       IN  /\ Len(UpperChar(SubSeq(s, 1, n))) = n
           /\ KeepsLengths(Drop(s, n))

\* Under LineSpec.
LengthKeepingLines ==
    KeepsLengths(cur) =>
        /\ C2_FirstRuleInOrderWins
        /\ C3_BracketedFormsFirst
        /\ C5_ColourOfSeverity
        /\ C6_OffsetsOfOriginalLine
        /\ C7_NeverAborts

\* Under Spec.
LengthKeepingStreams ==
    (\A k \in DOMAIN input : KeepsLengths(input[k])) => C10_OneOutputLinePerInputLine

=============================================================================
